---- MODULE Spec2Model ----
(***************************************************************************)
(* Borrowing / reservation lifecycle of the library management server.     *)
(*                                                                         *)
(* State: the three collections the lifecycle touches (books, borrows,     *)
(* reservations), the notifications written by the reservation queue, and  *)
(* the wall clock.  Time is counted in ticks, DAY ticks to a day, so that  *)
(* Math.ceil over a fraction of a day is a real rounding.                  *)
(*                                                                         *)
(* Two facts are decided by the ODM and the database, not by this code,    *)
(* and are fixed when the server starts: whether document validation runs  *)
(* before the pre('save') hooks (validateFirst), and whether the unique    *)
(* index on borrows could be built (borrowIndexBuilt).                     *)
(*                                                                         *)
(* Spec        : loan lifecycle, every handler run to completion.          *)
(* QueueSpec   : reservation queue and the loans that feed it.             *)
(* CatalogSpec : borrowing and reserving against soft-deleted books.       *)
(* ConcSpec    : borrowBook requests suspended at their awaits,            *)
(*               interleaving with the other operations.                   *)
(* ReserveSpec : the same for createReservation requests.                  *)
(* AccessSpec  : the access checks of return, renew and cancel.            *)
(* FulfillSpec : the queue of one book whose only copy is out.             *)
(* LimitSpec   : a borrower who is at the borrowing limit.                 *)
(* ExpireSpec  : reservations that lapse and are swept.                    *)
(* UpdateSpec  : the catalog edited while copies are out.                  *)
(* RenewSpec   : renewBook requests suspended at their awaits.             *)
(* ReturnSpec  : returnBook requests suspended at their awaits.            *)
(* OverdueSpec : one loan running past its due date.                       *)
(* FineSpec    : the fine computations on one loan at any time.            *)
(***************************************************************************)
EXTENDS Integers, Sequences, FiniteSets, TLC

(* ---------------------------------------------------------------- bounds *)
DAY == 2
MaxDays == 15
MaxLoans == 2
MaxReservations == 2
MaxRequests == 2

MaxTime == MaxDays * DAY

(* ------------------------------------------------------------- constants *)
BORROW_DURATION_DAYS == 14
RENEWAL_DURATION_DAYS == 7
MAX_RENEWALS == 2
FINE_PER_DAY == 1
MAX_FINE_AMOUNT == 50
PICKUP_WINDOW_DAYS == 3
BORROW_LIMIT == 5

(* -------------------------------------------------------------- universe *)
\* u1 and u2 are patrons; u3 (librarian) and u4 (admin) act on their records
Users == {"u1", "u2", "u3", "u4"}
Patrons == {"u1", "u2"}
Books == {"b1", "b2"}
\* the book the catalog's soft delete is exercised on
Deletable == {"b1"}

role ==
    [u \in Users |-> IF u = "u3" THEN "librarian"
                     ELSE IF u = "u4" THEN "admin" ELSE "student"]

catalog == [b \in Books |-> IF b = "b1" THEN 1 ELSE 2]

NULL == -1
NoUser == "null"
Undefined == "undefined"
NoBook == "none"

VARIABLES books, loans, reservations, notifications, now,
          validateFirst, borrowIndexBuilt, requests, last

vars == <<books, loans, reservations, notifications, now,
          validateFirst, borrowIndexBuilt, requests, last>>

(* ------------------------------------------------------------- arithmetic *)
Min(a, b) == IF a < b THEN a ELSE b
Max(a, b) == IF a > b THEN a ELSE b

\* Math.ceil(ms / (1000 * 60 * 60 * 24)) for a difference d given in ticks
CeilDays(d) == IF d >= 0 THEN (d + DAY - 1) \div DAY ELSE -((-d) \div DAY)

(* ------------------------------------------------------------ Book model *)
\* variant: a withdrawn book with copies on the shelf counts as available
isBookAvailableWithdrawn(bk) == bk.availableCopies > 0

\* variant: the last copy on the shelf does not count as available
isBookAvailableBeyondLast(bk) == bk.availableCopies > 1 /\ bk.isActive

isBookAvailable(bk) == bk.availableCopies > 0 /\ bk.isActive

borrowCopy(bk) ==
    IF bk.availableCopies > 0
    THEN [bk EXCEPT !.availableCopies = @ - 1, !.totalBorrows = @ + 1]
    ELSE bk

\* variant: the last copy is never handed back
returnCopyBelowLast(bk) ==
    IF bk.availableCopies < bk.totalCopies - 1
    THEN [bk EXCEPT !.availableCopies = @ + 1]
    ELSE bk

returnCopy(bk) ==
    IF bk.availableCopies < bk.totalCopies
    THEN [bk EXCEPT !.availableCopies = @ + 1]
    ELSE bk

reserveCopy(bk) == [bk EXCEPT !.totalReservations = @ + 1]

bookCancelReservation(bk) ==
    IF bk.totalReservations > 0
    THEN [bk EXCEPT !.totalReservations = @ - 1]
    ELSE bk

\* bookSchema.pre('save'): clamp availableCopies to totalCopies
bookPreSave(bk) ==
    IF bk.availableCopies > bk.totalCopies
    THEN [bk EXCEPT !.availableCopies = bk.totalCopies]
    ELSE bk

(* ---------------------------------------------------------- Borrow model *)
\* new Borrow({user, book, borrowedBy}) with the schema defaults
NewBorrow(u, b, t) ==
    [user |-> u, book |-> b, borrowDate |-> t, dueDate |-> NULL,
     returnDate |-> NULL, status |-> "borrowed", fineAmount |-> 0,
     finePaid |-> FALSE, renewals |-> 0, renewalHistory |-> <<>>]

\* borrowSchema.pre('save') #1: default due date
borrowPreSaveDueDate(d, isNew) ==
    IF isNew /\ d.dueDate = NULL
    THEN [d EXCEPT !.dueDate = d.borrowDate + BORROW_DURATION_DAYS * DAY]
    ELSE d

\* borrowSchema.pre('save') #2: status from dates
borrowPreSaveStatus(d, t) ==
    IF d.status = "borrowed" /\ d.returnDate = NULL
       /\ d.dueDate # NULL /\ t > d.dueDate
    THEN [d EXCEPT !.status = "overdue",
                   !.fineAmount = Min(CeilDays(t - d.dueDate) * FINE_PER_DAY,
                                      MAX_FINE_AMOUNT)]
    ELSE d

\* schema validators of a borrow document
borrowValid(d) ==
    /\ d.dueDate # NULL
    /\ d.fineAmount >= 0
    /\ d.renewals >= 0 /\ d.renewals <= MAX_RENEWALS

\* document.save(): validators and pre('save') hooks, in the order the ODM
\* runs them; ok = FALSE is a ValidationError and nothing is written
borrowSave(d, isNew, t, vFirst) ==
    LET hooked == borrowPreSaveStatus(borrowPreSaveDueDate(d, isNew), t)
    IN [ok |-> borrowValid(IF vFirst THEN d ELSE hooked), doc |-> hooked]

\* unique partial index {user, book, status} where status = 'borrowed'.
\* The schema first declares a plain index on the same keys, so the two get
\* the same generated name and the database keeps whichever exists already:
\* borrowIndexBuilt tells whether the collection has the unique one.
borrowIndexConflict(ls, d) ==
    /\ d.status = "borrowed"
    /\ \E i \in 1..Len(ls) :
          /\ ls[i].user = d.user /\ ls[i].book = d.book
          /\ ls[i].status = "borrowed"

\* Borrow.create(): ok = FALSE when save() or the insert throws
borrowCreate(ls, u, b, t, vFirst, indexed) ==
    LET s == borrowSave(NewBorrow(u, b, t), TRUE, t, vFirst)
    IN IF s.ok /\ ~(indexed /\ borrowIndexConflict(ls, s.doc))
       THEN [ok |-> TRUE, loans |-> Append(ls, s.doc)]
       ELSE [ok |-> FALSE, loans |-> ls]

\* loans of the books whose inventory is followed; the bound on the number
\* of loans counts these
Tracked(ls) == Cardinality({l \in 1..Len(ls) : ls[l].book \in Books})

\* titles of the rest of the catalog, of which only the loans matter
OtherBooks == <<"o1", "o2", "o3", "o4", "o5">>

\* k loans u1 took earlier, one of each of the first k other titles
Held(k) ==
    [i \in 1..k |->
        borrowSave(NewBorrow("u1", OtherBooks[i], 0), TRUE, 0, FALSE).doc]

\* variant: the due date is not looked at
canRenewPastDue(d, t) == d.status = "borrowed" /\ d.renewals < MAX_RENEWALS

canRenew(d, t) ==
    d.status = "borrowed" /\ d.renewals < MAX_RENEWALS /\ t < d.dueDate

\* virtual daysOverdue: 0 unless the stored status is 'overdue'
daysOverdue(d, t) ==
    IF d.status = "returned" \/ d.status = "borrowed" THEN 0
    ELSE Max(0, CeilDays(t - d.dueDate))

\* virtual calculatedFine, from the daysOverdue virtual
calculatedFine(d, t) ==
    IF d.status = "returned" \/ d.finePaid THEN 0
    ELSE IF daysOverdue(d, t) <= 0 THEN 0
    ELSE Min(daysOverdue(d, t) * FINE_PER_DAY, MAX_FINE_AMOUNT)

\* variant: the fine is not capped
calculateFineUncapped(d, t) ==
    IF d.status = "returned" \/ d.finePaid THEN 0
    ELSE IF t <= d.dueDate THEN 0
    ELSE CeilDays(t - d.dueDate) * FINE_PER_DAY

calculateFine(d, t) ==
    IF d.status = "returned" \/ d.finePaid THEN 0
    ELSE IF t <= d.dueDate THEN 0
    ELSE Min(CeilDays(t - d.dueDate) * FINE_PER_DAY, MAX_FINE_AMOUNT)

\* borrowSchema.methods.renewBook (caller has checked canRenew)
renewBookDoc(d, by, t) ==
    LET newDueDate == d.dueDate + RENEWAL_DURATION_DAYS * DAY
    IN [d EXCEPT !.dueDate = newDueDate,
                 !.renewals = @ + 1,
                 !.renewalHistory = Append(@, [newDueDate |-> newDueDate])]

\* borrowSchema.methods.returnBook (caller has checked status # returned):
\* status is assigned before it is tested
returnBookDoc(d, by, t) ==
    LET r == [d EXCEPT !.returnDate = t, !.status = "returned"]
    IN IF r.status = "overdue"
       THEN [r EXCEPT !.fineAmount = calculateFine(r, t)]
       ELSE r

(* ----------------------------------------------------- Reservation model *)
\* new Reservation({user, book, priority}) with the schema defaults
NewReservation(u, b, p, t) ==
    [user |-> u, book |-> b, reservationDate |-> t, expiryDate |-> NULL,
     status |-> "active", priority |-> p, fulfilledAt |-> NULL,
     fulfilledBy |-> Undefined]

\* a comparison against a missing date is false
isExpired(r, t) == r.status = "active" /\ r.expiryDate # NULL /\ t > r.expiryDate

\* reservationSchema.pre('save') #1: default expiry date (3 days)
reservationPreSaveExpiry(r, isNew) ==
    IF isNew /\ r.expiryDate = NULL
    THEN [r EXCEPT !.expiryDate = r.reservationDate + PICKUP_WINDOW_DAYS * DAY]
    ELSE r

\* reservationSchema.pre('save') #2: status from expiry
reservationPreSaveStatus(r, t) ==
    IF r.status = "active" /\ isExpired(r, t)
    THEN [r EXCEPT !.status = "expired"]
    ELSE r

reservationValid(r) == r.expiryDate # NULL /\ r.priority >= 1

reservationSave(r, isNew, t, vFirst) ==
    LET hooked == reservationPreSaveStatus(reservationPreSaveExpiry(r, isNew), t)
    IN [ok |-> reservationValid(IF vFirst THEN r ELSE hooked), doc |-> hooked]

\* reservations made by the patrons; the bound on the number of
\* reservations counts these
Queued(rs) == Cardinality({i \in 1..Len(rs) : rs[i].user \in Patrons})

\* variant: the collection has no unique index
reservationNoIndex(rs, r) == FALSE

\* unique partial index {user, book, status} where status = 'active'
reservationIndexConflict(rs, r) ==
    /\ r.status = "active"
    /\ \E i \in 1..Len(rs) :
          /\ rs[i].user = r.user /\ rs[i].book = r.book
          /\ rs[i].status = "active"

\* reservationSchema.methods.fulfillReservation(fulfilledBy)
fulfillReservation(r, by, t) ==
    [r EXCEPT !.status = "fulfilled", !.fulfilledAt = t, !.fulfilledBy = by]

\* reservationSchema.methods.cancelReservation()
cancelReservation(r) == [r EXCEPT !.status = "cancelled"]

ActiveOf(rs, b) == {i \in 1..Len(rs) : rs[i].book = b /\ rs[i].status = "active"}

\* variant: the update is not restricted to active reservations
shiftPrioritiesAnyStatus(rs, b, p) ==
    [i \in 1..Len(rs) |->
        IF rs[i].book = b /\ rs[i].priority > p
        THEN [rs[i] EXCEPT !.priority = @ - 1]
        ELSE rs[i]]

\* updateMany({book, status: 'active', priority: {$gt: p}},
\*            {$inc: {priority: -1}})
shiftPriorities(rs, b, p) ==
    [i \in 1..Len(rs) |->
        IF rs[i].book = b /\ rs[i].status = "active" /\ rs[i].priority > p
        THEN [rs[i] EXCEPT !.priority = @ - 1]
        ELSE rs[i]]

\* findOne(...).sort({priority: -1}); 0 stands for no document
lastReservation(rs, b) ==
    IF ActiveOf(rs, b) = {} THEN 0
    ELSE CHOOSE i \in ActiveOf(rs, b) :
            \A j \in ActiveOf(rs, b) :
               \/ rs[i].priority > rs[j].priority
               \/ (rs[i].priority = rs[j].priority /\ i <= j)

\* variant: the newest reservation is served first
nextReservationNewest(rs, b) == lastReservation(rs, b)

\* findOne(...).sort({priority: 1, reservationDate: 1}); 0 stands for none
nextReservation(rs, b) ==
    IF ActiveOf(rs, b) = {} THEN 0
    ELSE CHOOSE i \in ActiveOf(rs, b) :
            \A j \in ActiveOf(rs, b) :
               \/ rs[i].priority < rs[j].priority
               \/ /\ rs[i].priority = rs[j].priority
                  /\ \/ rs[i].reservationDate < rs[j].reservationDate
                     \/ (rs[i].reservationDate = rs[j].reservationDate /\ i <= j)

(* ------------------------------------------------------- history records *)
\* The response of the last request.  A successful request also records the
\* book, loan and reservation it acted on and the book's availableCopies as
\* they were when the request arrived; any other request records only its
\* operation and status code.
Resp(op, code, actor, book, loan, res) ==
    IF code \in {200, 201}
    THEN [op |-> op, code |-> code, book |-> book, loan |-> loan, res |-> res,
          avail |-> books[book].availableCopies]
    ELSE [op |-> op, code |-> code, book |-> NoBook, loan |-> 0, res |-> 0,
          avail |-> 0]

\* variant: only an admin passes
isStaffAdminOnly(u) == role[u] = "admin"

isStaff(u) == role[u] = "admin" \/ role[u] = "librarian"

(* ------------------------------------------------------------------ Init *)
Init ==
    /\ books = [b \in Books |->
                  [totalCopies |-> catalog[b], availableCopies |-> catalog[b],
                   isActive |-> TRUE, totalBorrows |-> 0,
                   totalReservations |-> 0]]
    /\ loans = <<>>
    /\ reservations = <<>>
    /\ notifications = {}
    /\ now = 0
    /\ validateFirst \in BOOLEAN
    /\ borrowIndexBuilt \in BOOLEAN
    /\ requests = <<>>
    /\ last = [op |-> "init", code |-> 0, book |-> NoBook, loan |-> 0, res |-> 0,
               avail |-> 0]

(* ------------------------------------------------------------ borrowBook *)
\* POST /api/borrows, run to completion
BorrowBook(u, b) ==
    LET book == books[b]
        existingBorrow == \E i \in 1..Len(loans) :
            loans[i].user = u /\ loans[i].book = b /\ loans[i].status = "borrowed"
        userBorrowCount == Cardinality({i \in 1..Len(loans) :
            loans[i].user = u /\ loans[i].status = "borrowed"})
        c == borrowCreate(loans, u, b, now, validateFirst, borrowIndexBuilt)
        code == IF ~isBookAvailable(book) THEN 400
                ELSE IF existingBorrow THEN 409
                ELSE IF userBorrowCount >= BORROW_LIMIT THEN 400
                ELSE IF ~c.ok THEN 500
                ELSE 201
    IN /\ code = 201 => Tracked(loans) < MaxLoans
       /\ loans' = IF code = 201 THEN c.loans ELSE loans
       /\ books' = IF code = 201
                   THEN [books EXCEPT ![b] = bookPreSave(borrowCopy(book))]
                   ELSE books
       /\ last' = Resp("borrow", code, u, b, Len(loans) + 1, 0)
       /\ UNCHANGED <<reservations, notifications, now, validateFirst,
                      borrowIndexBuilt, requests>>

(* ------------------------------------------------------------ returnBook *)
\* variant: a loan that is already returned is returned again
ReturnBookAgain(actor, l) ==
    LET borrow == loans[l]
        code == IF ~isStaff(actor) /\ borrow.user # actor THEN 403 ELSE 200
        s == borrowSave(returnBookDoc(borrow, actor, now), FALSE, now,
                        validateFirst)
    IN /\ l \in 1..Len(loans)
       /\ loans' = IF code = 200 THEN [loans EXCEPT ![l] = s.doc] ELSE loans
       /\ books' = IF code = 200
                   THEN [books EXCEPT ![borrow.book] =
                            bookPreSave(returnCopy(books[borrow.book]))]
                   ELSE books
       /\ last' = Resp("return", code, actor, borrow.book, l, 0)
       /\ UNCHANGED <<reservations, notifications, now, validateFirst,
                      borrowIndexBuilt, requests>>

\* POST /api/borrows/:id/return, run to completion
ReturnBook(actor, l) ==
    LET borrow == loans[l]
        code == IF ~isStaff(actor) /\ borrow.user # actor THEN 403
                ELSE IF borrow.status = "returned" THEN 400
                ELSE 200
        s == borrowSave(returnBookDoc(borrow, actor, now), FALSE, now,
                        validateFirst)
    IN /\ l \in 1..Len(loans)
       /\ loans' = IF code = 200 THEN [loans EXCEPT ![l] = s.doc] ELSE loans
       /\ books' = IF code = 200
                   THEN [books EXCEPT ![borrow.book] =
                            bookPreSave(returnCopy(books[borrow.book]))]
                   ELSE books
       /\ last' = Resp("return", code, actor, borrow.book, l, 0)
       /\ UNCHANGED <<reservations, notifications, now, validateFirst,
                      borrowIndexBuilt, requests>>

(* ------------------------------------------------------------- renewBook *)
\* POST /api/borrows/:id/renew, run to completion
RenewBook(actor, l) ==
    LET borrow == loans[l]
        s == borrowSave(renewBookDoc(borrow, actor, now), FALSE, now,
                        validateFirst)
        code == IF ~isStaff(actor) /\ borrow.user # actor THEN 403
                ELSE IF ~canRenew(borrow, now) THEN 400
                ELSE IF ~s.ok THEN 500
                ELSE 200
    IN /\ l \in 1..Len(loans)
       /\ loans' = IF code = 200 THEN [loans EXCEPT ![l] = s.doc] ELSE loans
       /\ last' = Resp("renew", code, actor, borrow.book, l, 0)
       /\ UNCHANGED <<books, reservations, notifications, now, validateFirst,
                      borrowIndexBuilt, requests>>

(* ----------------------------------------------------- createReservation *)
\* POST /api/reservations -> Reservation.createReservation, run to completion
CreateReservation(u, b) ==
    LET book == books[b]
        existingReservation == \E i \in 1..Len(reservations) :
            /\ reservations[i].user = u /\ reservations[i].book = b
            /\ reservations[i].status = "active"
        lr == lastReservation(reservations, b)
        nextPriority == (IF lr = 0 THEN 0 ELSE reservations[lr].priority) + 1
        s == reservationSave(NewReservation(u, b, nextPriority, now), TRUE, now,
                             validateFirst)
        code == IF isBookAvailable(book) THEN 400
                ELSE IF existingReservation THEN 409
                ELSE IF ~s.ok \/ reservationIndexConflict(reservations, s.doc)
                     THEN 500
                ELSE 201
    IN /\ code = 201 => Queued(reservations) < MaxReservations
       /\ reservations' = IF code = 201 THEN Append(reservations, s.doc)
                          ELSE reservations
       /\ books' = IF code = 201
                   THEN [books EXCEPT ![b] = bookPreSave(reserveCopy(book))]
                   ELSE books
       /\ last' = Resp("reserve", code, u, b, 0, Len(reservations) + 1)
       /\ UNCHANGED <<loans, notifications, now, validateFirst,
                      borrowIndexBuilt, requests>>

(* ----------------------------------------------------- cancel reservation *)
\* DELETE /api/reservations/:id, run to completion
CancelReservation(actor, r) ==
    LET reservation == reservations[r]
        s == reservationSave(cancelReservation(reservation), FALSE, now,
                             validateFirst)
        code == IF ~isStaff(actor) /\ reservation.user # actor THEN 403
                ELSE IF reservation.status # "active" THEN 400
                ELSE IF ~s.ok THEN 500
                ELSE 200
        b == reservation.book
    IN /\ r \in 1..Len(reservations)
       /\ reservations' =
             IF code = 200
             THEN shiftPriorities([reservations EXCEPT ![r] = s.doc], b,
                                  reservation.priority)
             ELSE reservations
       /\ books' = IF code = 200
                   THEN [books EXCEPT ![b] =
                            bookPreSave(bookCancelReservation(books[b]))]
                   ELSE books
       /\ last' = Resp("cancel", code, actor, b, 0, r)
       /\ UNCHANGED <<loans, notifications, now, validateFirst,
                      borrowIndexBuilt, requests>>

(* ------------------------------------------------ processReservationQueue *)
\* Reservation.processReservationQueue(bookId), run to completion.
\* code 0: returned null; 500: threw after the writes made so far; 200: result
ProcessReservationQueue(b) ==
    LET book == books[b]
        n == nextReservation(reservations, b)
        res == reservations[n]
        s == reservationSave(fulfillReservation(res, Undefined, now), FALSE,
                             now, validateFirst)
        c == borrowCreate(loans, res.user, b, now, validateFirst,
                          borrowIndexBuilt)
        code == IF ~isBookAvailable(book) THEN 0
                ELSE IF n = 0 THEN 0
                ELSE IF ~s.ok \/ ~c.ok THEN 500
                ELSE 200
        saved == code # 0 /\ s.ok
    IN /\ code = 200 => Tracked(loans) < MaxLoans
       /\ reservations' =
             IF code = 200
             THEN shiftPriorities([reservations EXCEPT ![n] = s.doc], b,
                                  res.priority)
             ELSE IF saved THEN [reservations EXCEPT ![n] = s.doc]
             ELSE reservations
       /\ loans' = IF code = 200 THEN c.loans ELSE loans
       /\ books' = IF code = 200
                   THEN [books EXCEPT ![b] = bookPreSave(borrowCopy(book))]
                   ELSE books
       /\ notifications' =
             IF code = 200
             THEN notifications \cup
                     {[user |-> res.user, type |-> "reservation_available",
                       res |-> n]}
             ELSE notifications
       /\ last' = Resp("process", code, NoUser, b, Len(loans) + 1, n)
       /\ UNCHANGED <<now, validateFirst, borrowIndexBuilt, requests>>

(* --------------------------------------------- cleanupExpiredReservations *)
\* variant: the query does not ask for status 'active'
expiredIdsAnyStatus(rs, t) == {i \in 1..Len(rs) : rs[i].expiryDate < t}

\* getExpiredReservations(): the documents as fetched, in no particular order
expiredIds(rs, t) ==
    {i \in 1..Len(rs) : rs[i].status = "active" /\ rs[i].expiryDate < t}

Orders(S) ==
    {o \in [1..Cardinality(S) -> S] :
        \A i, j \in 1..Cardinality(S) : i # j => o[i] # o[j]}

\* the for-loop: docs holds the fetched documents, st = [rs, bs] the database
RECURSIVE cleanupLoop(_, _, _, _)
cleanupLoop(st, docs, order, k) ==
    IF k > Len(order) THEN st
    ELSE LET id == order[k]
             b == docs[id].book
             rs1 == [st.rs EXCEPT ![id].status = "expired"]
             bs1 == [st.bs EXCEPT ![b] =
                        bookPreSave(bookCancelReservation(st.bs[b]))]
             rs2 == shiftPriorities(rs1, b, docs[id].priority)
         IN cleanupLoop([rs |-> rs2, bs |-> bs1], docs, order, k + 1)

\* Reservation.cleanupExpiredReservations(), run to completion;
\* code is the number of reservations expired
CleanupExpiredReservations ==
    \E order \in Orders(expiredIds(reservations, now)) :
        LET st == cleanupLoop([rs |-> reservations, bs |-> books],
                              reservations, order, 1)
        IN /\ reservations' = st.rs
           /\ books' = st.bs
           /\ last' = [op |-> "cleanup", code |-> Len(order), book |-> NoBook,
                       loan |-> 0, res |-> 0, avail |-> 0]
           /\ UNCHANGED <<loans, notifications, now, validateFirst,
                      borrowIndexBuilt, requests>>

(* ------------------------------------------------------------ deleteBook *)
\* DELETE /api/books/:id: soft delete
DeleteBook(b) ==
    /\ books' = [books EXCEPT ![b] = bookPreSave([@ EXCEPT !.isActive = FALSE])]
    /\ last' = Resp("delete", 200, NoUser, b, 0, 0)
    /\ UNCHANGED <<loans, reservations, notifications, now, validateFirst,
                   borrowIndexBuilt, requests>>

(* ------------------------------------------------------------ updateBook *)
\* the request bodies tried: each field absent (NULL) or a number
UpdateBodies ==
    {[totalCopies |-> t, availableCopies |-> a] :
        t \in {NULL, 1, 2}, a \in {NULL, 1}}

\* validateBookUpdate: both fields optional
validateBookUpdate(body) ==
    /\ body.totalCopies # NULL =>
          body.totalCopies >= 1 /\ body.totalCopies <= 1000
    /\ body.availableCopies # NULL => body.availableCopies >= 0

\* runValidators on findByIdAndUpdate: the schema validators of the paths
\* the update sets.  The availableCopies validator compares the value with
\* this.totalCopies; in an update `this` is not the stored document and has
\* no totalCopies, and a comparison with undefined is false.
updateValidators(body) ==
    /\ body.totalCopies # NULL =>
          body.totalCopies >= 1 /\ body.totalCopies <= 1000
    /\ body.availableCopies # NULL =>
          body.availableCopies >= 0 /\ FALSE

\* PUT /api/books/:id: findByIdAndUpdate with the request body; no save
\* hook runs
UpdateBook(b, body) ==
    LET code == IF ~validateBookUpdate(body) THEN 400
                ELSE IF ~updateValidators(body) THEN 500
                ELSE 200
        total == IF body.totalCopies # NULL THEN body.totalCopies
                 ELSE books[b].totalCopies
        avail == IF body.availableCopies # NULL THEN body.availableCopies
                 ELSE books[b].availableCopies
    IN /\ books' = IF code = 200
                   THEN [books EXCEPT ![b].totalCopies = total,
                                      ![b].availableCopies = avail]
                   ELSE books
       /\ last' = Resp("update", code, NoUser, b, 0, 0)
       /\ UNCHANGED <<loans, reservations, notifications, now, validateFirst,
                      borrowIndexBuilt, requests>>

(* ------------------------------------------- borrowBook, await by await *)
\* A request in flight: the book document it loaded, where it is suspended,
\* and, once it has answered, its status code and the loan it created.
Request(u, b, pc, doc, code, loan) ==
    [user |-> u, book |-> b, pc |-> pc, doc |-> doc, code |-> code,
     loan |-> loan]

Answer(i, code) ==
    requests' = [requests EXCEPT ![i].pc = "done", ![i].code = code]

Goto(i, pc) == requests' = [requests EXCEPT ![i].pc = pc]

\* await Book.findById(bookId); isBookAvailable() on the loaded document
BorrowFindBook(u, b) ==
    /\ Len(requests) < MaxRequests
    /\ requests' = Append(requests,
          IF isBookAvailable(books[b])
          THEN Request(u, b, "findOne", books[b], 0, 0)
          ELSE Request(u, b, "done", books[b], 400, 0))
    /\ UNCHANGED <<books, loans, reservations, notifications, now,
                   validateFirst, borrowIndexBuilt, last>>

\* await Borrow.findOne({user, book, status: 'borrowed'})
BorrowFindExisting(i) ==
    LET q == requests[i]
        existingBorrow == \E k \in 1..Len(loans) :
            /\ loans[k].user = q.user /\ loans[k].book = q.book
            /\ loans[k].status = "borrowed"
    IN /\ i \in 1..Len(requests) /\ q.pc = "findOne"
       /\ IF existingBorrow THEN Answer(i, 409) ELSE Goto(i, "count")
       /\ UNCHANGED <<books, loans, reservations, notifications, now,
                      validateFirst, borrowIndexBuilt, last>>

\* await Borrow.countDocuments({user, status: 'borrowed'})
BorrowCount(i) ==
    LET q == requests[i]
        userBorrowCount == Cardinality({k \in 1..Len(loans) :
            loans[k].user = q.user /\ loans[k].status = "borrowed"})
    IN /\ i \in 1..Len(requests) /\ q.pc = "count"
       /\ IF userBorrowCount >= BORROW_LIMIT THEN Answer(i, 400)
          ELSE Goto(i, "create")
       /\ UNCHANGED <<books, loans, reservations, notifications, now,
                      validateFirst, borrowIndexBuilt, last>>

\* await Borrow.create({user, book, borrowedBy})
BorrowInsert(i) ==
    LET q == requests[i]
        c == borrowCreate(loans, q.user, q.book, now, validateFirst,
                          borrowIndexBuilt)
    IN /\ i \in 1..Len(requests) /\ q.pc = "create"
       /\ c.ok => Tracked(loans) < MaxLoans
       /\ loans' = c.loans
       /\ IF c.ok
          THEN requests' = [requests EXCEPT ![i].pc = "save",
                                            ![i].loan = Len(loans) + 1]
          ELSE Answer(i, 500)
       /\ UNCHANGED <<books, reservations, notifications, now, validateFirst,
                      borrowIndexBuilt, last>>

\* variant: the stored counters are decremented / incremented in place
BorrowSaveBookInPlace(i) ==
    LET q == requests[i]
    IN /\ i \in 1..Len(requests) /\ q.pc = "save"
       /\ books' = [books EXCEPT ![q.book].availableCopies = @ - 1,
                                 ![q.book].totalBorrows = @ + 1]
       /\ Answer(i, 201)
       /\ UNCHANGED <<loans, reservations, notifications, now, validateFirst,
                      borrowIndexBuilt, last>>

\* book.borrowCopy(); await book.save(): the paths modified on the loaded
\* document are written over the stored ones
BorrowSaveBook(i) ==
    LET q == requests[i]
        doc == bookPreSave(borrowCopy(q.doc))
    IN /\ i \in 1..Len(requests) /\ q.pc = "save"
       /\ books' = [books EXCEPT
             ![q.book].availableCopies =
                 IF doc.availableCopies # q.doc.availableCopies
                 THEN doc.availableCopies ELSE @,
             ![q.book].totalBorrows =
                 IF doc.totalBorrows # q.doc.totalBorrows
                 THEN doc.totalBorrows ELSE @]
       /\ Answer(i, 201)
       /\ UNCHANGED <<loans, reservations, notifications, now, validateFirst,
                      borrowIndexBuilt, last>>

(* ------------------------------------ createReservation, await by await *)
\* A reserve request in flight: as a borrow request, with the priority it
\* computed and the reservation it created
ReserveRequest(u, b, pc, doc, code, priority, res) ==
    [user |-> u, book |-> b, pc |-> pc, doc |-> doc, code |-> code,
     loan |-> 0, priority |-> priority, res |-> res]

\* await Book.findById(bookId); isBookAvailable() on the loaded document
ReserveFindBook(u, b) ==
    /\ Len(requests) < MaxRequests
    /\ requests' = Append(requests,
          IF isBookAvailable(books[b])
          THEN ReserveRequest(u, b, "done", books[b], 400, 0, 0)
          ELSE ReserveRequest(u, b, "reserved?", books[b], 0, 0, 0))
    /\ UNCHANGED <<books, loans, reservations, notifications, now,
                   validateFirst, borrowIndexBuilt, last>>

\* await this.findOne({user, book, status: 'active'})
ReserveFindExisting(i) ==
    LET q == requests[i]
        existingReservation == \E k \in 1..Len(reservations) :
            /\ reservations[k].user = q.user /\ reservations[k].book = q.book
            /\ reservations[k].status = "active"
    IN /\ i \in 1..Len(requests) /\ q.pc = "reserved?"
       /\ IF existingReservation THEN Answer(i, 409) ELSE Goto(i, "last")
       /\ UNCHANGED <<books, loans, reservations, notifications, now,
                      validateFirst, borrowIndexBuilt, last>>

\* await this.findOne({book, status: 'active'}).sort({priority: -1})
ReserveFindLast(i) ==
    LET q == requests[i]
        lr == lastReservation(reservations, q.book)
        nextPriority == (IF lr = 0 THEN 0 ELSE reservations[lr].priority) + 1
    IN /\ i \in 1..Len(requests) /\ q.pc = "last"
       /\ requests' = [requests EXCEPT ![i].pc = "insert",
                                       ![i].priority = nextPriority]
       /\ UNCHANGED <<books, loans, reservations, notifications, now,
                      validateFirst, borrowIndexBuilt, last>>

\* await this.create({user, book, priority})
ReserveInsert(i) ==
    LET q == requests[i]
        s == reservationSave(NewReservation(q.user, q.book, q.priority, now),
                             TRUE, now, validateFirst)
        ok == s.ok /\ ~reservationIndexConflict(reservations, s.doc)
    IN /\ i \in 1..Len(requests) /\ q.pc = "insert"
       /\ ok => Queued(reservations) < MaxReservations
       /\ reservations' = IF ok THEN Append(reservations, s.doc)
                          ELSE reservations
       /\ IF ok
          THEN requests' = [requests EXCEPT ![i].pc = "count",
                                            ![i].res = Len(reservations) + 1]
          ELSE Answer(i, 500)
       /\ UNCHANGED <<books, loans, notifications, now, validateFirst,
                      borrowIndexBuilt, last>>

\* book.reserveCopy(); await book.save(): the paths modified on the loaded
\* document are written over the stored ones
ReserveSaveBook(i) ==
    LET q == requests[i]
        doc == bookPreSave(reserveCopy(q.doc))
    IN /\ i \in 1..Len(requests) /\ q.pc = "count"
       /\ books' = [books EXCEPT
             ![q.book].availableCopies =
                 IF doc.availableCopies # q.doc.availableCopies
                 THEN doc.availableCopies ELSE @,
             ![q.book].totalReservations =
                 IF doc.totalReservations # q.doc.totalReservations
                 THEN doc.totalReservations ELSE @]
       /\ Answer(i, 201)
       /\ UNCHANGED <<loans, reservations, notifications, now, validateFirst,
                      borrowIndexBuilt, last>>

(* ------------------------------------------- returnBook, await by await *)
\* await Borrow.findById(borrowId): the request holds the loan as it read it
ReturnFindBorrow(u, l) ==
    /\ Len(requests) < MaxRequests
    /\ l \in 1..Len(loans)
    /\ requests' = Append(requests,
          Request(u, loans[l].book, "return", loans[l], 0, l))
    /\ UNCHANGED <<books, loans, reservations, notifications, now,
                   validateFirst, borrowIndexBuilt, last>>

\* the checks and borrow.returnBook() on the loaded document, then
\* await borrow.save(): the paths set on the document are written
ReturnSaveBorrow(i) ==
    LET q == requests[i]
        borrow == q.doc
        s == borrowSave(returnBookDoc(borrow, q.user, now), FALSE, now,
                        validateFirst)
        code == IF ~isStaff(q.user) /\ borrow.user # q.user THEN 403
                ELSE IF borrow.status = "returned" THEN 400
                ELSE IF ~s.ok THEN 500
                ELSE 0
    IN /\ i \in 1..Len(requests) /\ q.pc = "return"
       /\ loans' =
             IF code = 0
             THEN [loans EXCEPT
                     ![q.loan].returnDate = s.doc.returnDate,
                     ![q.loan].status = s.doc.status,
                     ![q.loan].fineAmount =
                         IF s.doc.fineAmount # borrow.fineAmount
                         THEN s.doc.fineAmount ELSE @]
             ELSE loans
       /\ IF code = 0 THEN Goto(i, "findBook") ELSE Answer(i, code)
       /\ UNCHANGED <<books, reservations, notifications, now,
                      validateFirst, borrowIndexBuilt, last>>

\* await Book.findById(borrow.book): the request now holds the book
ReturnFindBook(i) ==
    LET q == requests[i]
    IN /\ i \in 1..Len(requests) /\ q.pc = "findBook"
       /\ requests' = [requests EXCEPT ![i].pc = "saveBook",
                                         ![i].doc = books[q.book]]
       /\ UNCHANGED <<books, loans, reservations, notifications, now,
                      validateFirst, borrowIndexBuilt, last>>

\* book.returnCopy(); await book.save(): the paths modified on the loaded
\* document are written over the stored ones
ReturnSaveBook(i) ==
    LET q == requests[i]
        doc == bookPreSave(returnCopy(q.doc))
    IN /\ i \in 1..Len(requests) /\ q.pc = "saveBook"
       /\ books' = [books EXCEPT
             ![q.book].availableCopies =
                 IF doc.availableCopies # q.doc.availableCopies
                 THEN doc.availableCopies ELSE @]
       /\ Answer(i, 200)
       /\ UNCHANGED <<loans, reservations, notifications, now,
                      validateFirst, borrowIndexBuilt, last>>

(* -------------------------------------------- renewBook, await by await *)
\* await Borrow.findById(borrowId): the request holds the loan as it read it
RenewFindBorrow(u, l) ==
    /\ Len(requests) < MaxRequests
    /\ l \in 1..Len(loans)
    /\ requests' = Append(requests,
          Request(u, loans[l].book, "renew", loans[l], 0, l))
    /\ UNCHANGED <<books, loans, reservations, notifications, now,
                   validateFirst, borrowIndexBuilt, last>>

\* the checks and borrow.renewBook() on the loaded document, then
\* await borrow.save(): dueDate and renewals are written as set on the
\* document, the pushed history entry is appended to the stored array
RenewSave(i) ==
    LET q == requests[i]
        borrow == q.doc
        s == borrowSave(renewBookDoc(borrow, q.user, now), FALSE, now,
                        validateFirst)
        code == IF ~isStaff(q.user) /\ borrow.user # q.user THEN 403
                ELSE IF ~canRenew(borrow, now) THEN 400
                ELSE IF ~s.ok THEN 500
                ELSE 200
    IN /\ i \in 1..Len(requests) /\ q.pc = "renew"
       /\ loans' =
             IF code = 200
             THEN [loans EXCEPT
                     ![q.loan].dueDate = s.doc.dueDate,
                     ![q.loan].renewals = s.doc.renewals,
                     ![q.loan].renewalHistory =
                         Append(@, s.doc.renewalHistory[
                                       Len(s.doc.renewalHistory)]),
                     ![q.loan].status =
                         IF s.doc.status # borrow.status
                         THEN s.doc.status ELSE @,
                     ![q.loan].fineAmount =
                         IF s.doc.fineAmount # borrow.fineAmount
                         THEN s.doc.fineAmount ELSE @]
             ELSE loans
       /\ Answer(i, code)
       /\ UNCHANGED <<books, reservations, notifications, now,
                      validateFirst, borrowIndexBuilt, last>>

(* ------------------------------------------------------ overdue queries *)
\* Borrow.findOverdueBorrows(): status 'borrowed' and dueDate < now
findOverdueBorrows(ls, t) ==
    {l \in 1..Len(ls) : ls[l].status = "borrowed" /\ ls[l].dueDate < t}

\* the query of sendOverdueNotices: status 'overdue'
overdueBorrows(ls) == {l \in 1..Len(ls) : ls[l].status = "overdue"}

\* POST /api/notifications/send-overdue-notices: one notification for each
\* loan the query returns
SendOverdueNotices ==
    /\ notifications' =
          notifications \cup
             {[user |-> loans[l].user, type |-> "overdue", res |-> l] :
                 l \in overdueBorrows(loans)}
    /\ last' = [op |-> "notices", code |-> 200, book |-> NoBook, loan |-> 0,
                res |-> 0, avail |-> 0]
    /\ UNCHANGED <<books, loans, reservations, now, validateFirst,
                   borrowIndexBuilt, requests>>

(* ------------------------------------------------------ fine evaluation *)
\* borrow.calculateFine() on a stored loan at the current time
CallCalculateFine(l) ==
    /\ l \in 1..Len(loans)
    /\ last' = [op |-> "calculateFine", code |-> 200, book |-> loans[l].book,
                loan |-> l, res |-> 0, avail |-> 0,
                fine |-> calculateFine(loans[l], now)]
    /\ UNCHANGED <<books, loans, reservations, notifications, now,
                   validateFirst, borrowIndexBuilt, requests>>

\* borrow.calculatedFine read from a stored loan at the current time
GetCalculatedFine(l) ==
    /\ l \in 1..Len(loans)
    /\ last' = [op |-> "calculatedFine", code |-> 200, book |-> loans[l].book,
                loan |-> l, res |-> 0, avail |-> 0,
                fine |-> calculatedFine(loans[l], now)]
    /\ UNCHANGED <<books, loans, reservations, notifications, now,
                   validateFirst, borrowIndexBuilt, requests>>

\* a save of a stored loan with nothing else changed: the pre('save') hooks
SaveBorrow(l) ==
    LET s == borrowSave(loans[l], FALSE, now, validateFirst)
    IN /\ l \in 1..Len(loans)
       /\ loans' = IF s.ok THEN [loans EXCEPT ![l] = s.doc] ELSE loans
       /\ last' = [op |-> "save", code |-> IF s.ok THEN 200 ELSE 500,
                   book |-> loans[l].book, loan |-> l, res |-> 0,
                   avail |-> 0, fine |-> s.doc.fineAmount]
       /\ UNCHANGED <<books, reservations, notifications, now,
                      validateFirst, borrowIndexBuilt, requests>>

(* ----------------------------------------------------------------- clock *)
ClockSteps == {BORROW_DURATION_DAYS * DAY + 1}

AdvanceClock(d) ==
    /\ now + d <= MaxTime
    /\ now' = now + d
    /\ UNCHANGED <<books, loans, reservations, notifications,
                   validateFirst, borrowIndexBuilt, requests, last>>

\* loan lifecycle: borrow, return, renew
Next ==
    \/ \E u \in Patrons, b \in Books : BorrowBook(u, b)
    \/ \E u \in Users, l \in 1..MaxLoans : ReturnBook(u, l)
    \/ \E u \in Users, l \in 1..MaxLoans : RenewBook(u, l)
    \/ \E b \in Deletable : DeleteBook(b)
    \/ \E d \in ClockSteps : AdvanceClock(d)

Spec == Init /\ [][Next]_vars

\* reservation queue together with the loans that feed it
QueueNext ==
    \/ \E u \in Patrons, b \in Books : BorrowBook(u, b)
    \/ \E u \in Users, l \in 1..MaxLoans : ReturnBook(u, l)
    \/ \E u \in Patrons, b \in Books : CreateReservation(u, b)
    \/ \E u \in Users, r \in 1..MaxReservations : CancelReservation(u, r)
    \/ \E b \in Books : ProcessReservationQueue(b)
    \/ CleanupExpiredReservations
    \/ \E d \in ClockSteps : AdvanceClock(d)

QueueSpec == Init /\ [][QueueNext]_vars

\* catalog changes against borrowing and reserving
CatalogNext ==
    \/ \E u \in Patrons, b \in Books : BorrowBook(u, b)
    \/ \E u \in Users, l \in 1..MaxLoans : ReturnBook(u, l)
    \/ \E u \in Patrons, b \in Books : CreateReservation(u, b)
    \/ \E u \in Users, r \in 1..MaxReservations : CancelReservation(u, r)
    \/ \E b \in Deletable : DeleteBook(b)

CatalogSpec == Init /\ [][CatalogNext]_vars

\* a borrower at, or one below, the borrowing limit
LimitInit ==
    /\ books = [b \in Books |->
                  [totalCopies |-> catalog[b], availableCopies |-> catalog[b],
                   isActive |-> TRUE, totalBorrows |-> 0,
                   totalReservations |-> 0]]
    /\ loans \in {Held(BORROW_LIMIT - 1), Held(BORROW_LIMIT)}
    /\ reservations = <<>>
    /\ notifications = {}
    /\ now = 0
    /\ validateFirst = FALSE
    /\ borrowIndexBuilt \in BOOLEAN
    /\ requests = <<>>
    /\ last = [op |-> "init", code |-> 0, book |-> NoBook, loan |-> 0, res |-> 0,
               avail |-> 0]

LimitNext ==
    \/ \E u \in Patrons, b \in Books : BorrowBook(u, b)
    \/ \E u \in Users, l \in 1..(BORROW_LIMIT + MaxLoans) :
          /\ l \in 1..Len(loans) /\ loans[l].book \in Books
          /\ ReturnBook(u, l)
    \/ \E u \in Patrons, b \in Books : CreateReservation(u, b)
    \/ \E b \in Books : ProcessReservationQueue(b)

LimitSpec == LimitInit /\ [][LimitNext]_vars

\* borrow requests interleaving at their awaits with the other operations
ConcNext ==
    \/ \E u \in Patrons, b \in Books : BorrowFindBook(u, b)
    \/ \E i \in 1..MaxRequests : BorrowFindExisting(i)
    \/ \E i \in 1..MaxRequests : BorrowCount(i)
    \/ \E i \in 1..MaxRequests : BorrowInsert(i)
    \/ \E i \in 1..MaxRequests : BorrowSaveBook(i)
    \/ \E u \in Users, l \in 1..MaxLoans : ReturnBook(u, l)
    \/ \E u \in Patrons, b \in Books : CreateReservation(u, b)
    \/ \E u \in Users, r \in 1..MaxReservations : CancelReservation(u, r)
    \/ \E b \in Books : ProcessReservationQueue(b)

ConcSpec == Init /\ [][ConcNext]_vars

\* the state after u1 has borrowed the only copy of b1
ReserveInit ==
    /\ books = [b \in Books |->
                  LET bk == [totalCopies |-> catalog[b],
                             availableCopies |-> catalog[b],
                             isActive |-> TRUE, totalBorrows |-> 0,
                             totalReservations |-> 0]
                  IN IF b = "b1" THEN bookPreSave(borrowCopy(bk)) ELSE bk]
    /\ loans = borrowCreate(<<>>, "u1", "b1", 0, FALSE, TRUE).loans
    /\ reservations = <<>>
    /\ notifications = {}
    /\ now = 0
    /\ validateFirst = FALSE
    /\ borrowIndexBuilt \in BOOLEAN
    /\ requests = <<>>
    /\ last = [op |-> "init", code |-> 0, book |-> NoBook, loan |-> 0, res |-> 0,
               avail |-> 0]

\* reserve requests interleaving at their awaits with the other operations
ReserveNext ==
    \/ \E u \in Users, l \in 1..MaxLoans : ReturnBook(u, l)
    \/ \E u \in Patrons, b \in Books : ReserveFindBook(u, b)
    \/ \E i \in 1..MaxRequests : ReserveFindExisting(i)
    \/ \E i \in 1..MaxRequests : ReserveFindLast(i)
    \/ \E i \in 1..MaxRequests : ReserveInsert(i)
    \/ \E i \in 1..MaxRequests : ReserveSaveBook(i)
    \/ \E u \in Users, r \in 1..MaxReservations : CancelReservation(u, r)
    \/ \E b \in Books : ProcessReservationQueue(b)

ReserveSpec == ReserveInit /\ [][ReserveNext]_vars

\* the operations that check who is calling, around one loan and its book
AccessNext ==
    \/ \E u \in Users, l \in 1..MaxLoans : ReturnBook(u, l)
    \/ \E u \in Users, l \in 1..MaxLoans : RenewBook(u, l)
    \/ \E u \in Patrons, b \in Books : CreateReservation(u, b)
    \/ \E u \in Users, r \in 1..MaxReservations : CancelReservation(u, r)

AccessSpec == ReserveInit /\ [][AccessNext]_vars

\* the queue of one book, from the moment its only copy is out
FulfillNext ==
    \/ \E u \in Users, l \in 1..MaxLoans : ReturnBook(u, l)
    \/ \E u \in Patrons, b \in Books : CreateReservation(u, b)
    \/ \E u \in Users, r \in 1..MaxReservations : CancelReservation(u, r)
    \/ \E b \in Books : ProcessReservationQueue(b)
    \/ CleanupExpiredReservations
    \/ \E d \in ClockSteps : AdvanceClock(d)

FulfillSpec == ReserveInit /\ [][FulfillNext]_vars

\* u1 holds the only copy of b1 and the librarian u3 has reserved it
ExpireInit ==
    /\ books = [b \in Books |->
                  LET bk == [totalCopies |-> catalog[b],
                             availableCopies |-> catalog[b],
                             isActive |-> TRUE, totalBorrows |-> 0,
                             totalReservations |-> 0]
                  IN IF b = "b1"
                     THEN bookPreSave(reserveCopy(bookPreSave(borrowCopy(bk))))
                     ELSE bk]
    /\ loans = borrowCreate(<<>>, "u1", "b1", 0, FALSE, TRUE).loans
    /\ reservations =
          <<reservationSave(NewReservation("u3", "b1", 1, 0), TRUE, 0,
                            FALSE).doc>>
    /\ notifications = {}
    /\ now = 0
    /\ validateFirst = FALSE
    /\ borrowIndexBuilt \in BOOLEAN
    /\ requests = <<>>
    /\ last = [op |-> "init", code |-> 0, book |-> NoBook, loan |-> 0, res |-> 0,
               avail |-> 0]

\* reservations that lapse and are swept
ExpireNext ==
    \/ \E u \in Patrons, b \in Books : CreateReservation(u, b)
    \/ \E u \in Users, r \in 1..(MaxReservations + 1) :
          CancelReservation(u, r)
    \/ CleanupExpiredReservations
    \/ \E d \in ClockSteps : AdvanceClock(d)

ExpireSpec == ExpireInit /\ [][ExpireNext]_vars

\* renew requests interleaving at their awaits around one loan
RenewNext ==
    \/ \E u \in Users, l \in 1..MaxLoans : RenewFindBorrow(u, l)
    \/ \E i \in 1..MaxRequests : RenewSave(i)
    \/ \E u \in Users, l \in 1..MaxLoans : RenewBook(u, l)
    \/ \E u \in Users, l \in 1..MaxLoans : ReturnBook(u, l)
    \/ \E d \in ClockSteps : AdvanceClock(d)

RenewSpec == ReserveInit /\ [][RenewNext]_vars

\* one loan running past its due date
OverdueNext ==
    \/ \E u \in Users, l \in 1..MaxLoans : ReturnBook(u, l)
    \/ \E u \in Users, l \in 1..MaxLoans : RenewBook(u, l)
    \/ SendOverdueNotices
    \/ \E d \in ClockSteps : AdvanceClock(d)

OverdueSpec == ReserveInit /\ [][OverdueNext]_vars

\* the times at which a fine is evaluated: from the borrow date to past the
\* day the fine reaches its cap
FineTimes == 0..((BORROW_DURATION_DAYS + MAX_FINE_AMOUNT + 2) * DAY)

\* one loan of u1, borrowed at time 0 and renewed or not, paid or not, met
\* at any later time
FineInit ==
    /\ books = [b \in Books |->
                  LET bk == [totalCopies |-> catalog[b],
                             availableCopies |-> catalog[b],
                             isActive |-> TRUE, totalBorrows |-> 0,
                             totalReservations |-> 0]
                  IN IF b = "b1" THEN bookPreSave(borrowCopy(bk)) ELSE bk]
    /\ \E renewed \in BOOLEAN, paid \in BOOLEAN :
          LET d == borrowCreate(<<>>, "u1", "b1", 0, FALSE, TRUE).loans[1]
              r == IF renewed THEN renewBookDoc(d, "u1", 0) ELSE d
          IN loans = <<[r EXCEPT !.finePaid = paid]>>
    /\ reservations = <<>>
    /\ notifications = {}
    /\ now \in FineTimes
    /\ validateFirst \in BOOLEAN
    /\ borrowIndexBuilt = TRUE
    /\ requests = <<>>
    /\ last = [op |-> "init", code |-> 0, book |-> NoBook, loan |-> 0,
               res |-> 0, avail |-> 0]

FineNext ==
    \/ \E l \in 1..MaxLoans : CallCalculateFine(l)
    \/ \E l \in 1..MaxLoans : GetCalculatedFine(l)
    \/ \E l \in 1..MaxLoans : SaveBorrow(l)

FineSpec == FineInit /\ [][FineNext]_vars

\* u1 holds the only copy of b1, and u1 and u2 hold the two copies of b2
ReturnInit ==
    /\ books = [b \in Books |->
                  [totalCopies |-> catalog[b], availableCopies |-> 0,
                   isActive |-> TRUE, totalBorrows |-> catalog[b],
                   totalReservations |-> 0]]
    /\ loans = borrowCreate(
                  borrowCreate(
                     borrowCreate(<<>>, "u1", "b1", 0, FALSE, TRUE).loans,
                     "u1", "b2", 0, FALSE, TRUE).loans,
                  "u2", "b2", 0, FALSE, TRUE).loans
    /\ reservations = <<>>
    /\ notifications = {}
    /\ now = 0
    /\ validateFirst \in BOOLEAN
    /\ borrowIndexBuilt = TRUE
    /\ requests = <<>>
    /\ last = [op |-> "init", code |-> 0, book |-> NoBook, loan |-> 0,
               res |-> 0, avail |-> 0]

\* return requests interleaving at their awaits
ReturnNext ==
    \/ \E u \in Patrons, l \in 1..(MaxLoans + 1) : ReturnFindBorrow(u, l)
    \/ \E i \in 1..MaxRequests : ReturnSaveBorrow(i)
    \/ \E i \in 1..MaxRequests : ReturnFindBook(i)
    \/ \E i \in 1..MaxRequests : ReturnSaveBook(i)
    \/ \E d \in ClockSteps : AdvanceClock(d)

ReturnSpec == ReturnInit /\ [][ReturnNext]_vars

\* the catalog edited while copies are out
UpdateNext ==
    \/ \E u \in Patrons, b \in Books : BorrowBook(u, b)
    \/ \E u \in Users, l \in 1..MaxLoans : ReturnBook(u, l)
    \/ \E b \in Books, body \in UpdateBodies : UpdateBook(b, body)
    \/ \E b \in Books : DeleteBook(b)

UpdateSpec == Init /\ [][UpdateNext]_vars

(***************************************************************************)
(* Properties                                                              *)
(***************************************************************************)
Unreturned(ls, u, b) ==
    {l \in 1..Len(ls) : ls[l].user = u /\ ls[l].book = b
                          /\ ls[l].status \in {"borrowed", "overdue"}}

\* C1: every book keeps 0 <= availableCopies <= totalCopies, whatever borrows
\* (also overlapping ones), returns, reservations, cancellations and
\* fulfillments have run.
C1_AvailableWithinTotal ==
    \A b \in Books :
        /\ books[b].availableCopies >= 0
        /\ books[b].availableCopies <= books[b].totalCopies

\* two overlapping borrows took the single copy of b1 and both loans are back
C1_Witness ==
    /\ Len(requests) = 2
    /\ \A i \in 1..2 : /\ requests[i].book = "b1" /\ requests[i].code = 201
                       /\ requests[i].doc.availableCopies = 1
                       /\ loans[requests[i].loan].status = "returned"
    /\ books["b1"].availableCopies = books["b1"].totalCopies

\* C2: a user never has two unreturned (borrowed or overdue) loans of the
\* same book, whether loans come from borrow or from a fulfilled reservation.
C2_OneUnreturnedLoanPerUserBook ==
    \A u \in Users, b \in Books : Cardinality(Unreturned(loans, u, b)) <= 1

\* C3: for every book the priorities of its active reservations are exactly
\* 1..N, N being the number of active reservations of that book, with no
\* two of them sharing a priority.
C3_PrioritiesContiguous ==
    \A b \in Books :
        LET act == ActiveOf(reservations, b)
        IN /\ {reservations[i].priority : i \in act} = 1..Cardinality(act)
           /\ \A i, j \in act :
                 reservations[i].priority = reservations[j].priority => i = j

\* C4: when two borrow calls by different users overlap on a book whose
\* availableCopies is 1 (both loaded the book showing 1, and no copy came
\* back in between), exactly one answers 201 and the other 400, and they do
\* not both leave a loan.
C4_LastCopyOneWinner ==
    \A i, j \in 1..Len(requests) :
        LET p == requests[i]
            q == requests[j]
        IN (/\ i < j /\ ~validateFirst
            /\ p.user # q.user /\ p.book = q.book
            /\ p.pc = "done" /\ q.pc = "done"
            /\ p.doc.availableCopies = 1 /\ q.doc.availableCopies = 1
            /\ \A l \in 1..Len(loans) :
                  loans[l].book = p.book => loans[l].status # "returned")
           => /\ {p.code, q.code} = {201, 400}
              /\ ~(p.loan # 0 /\ q.loan # 0)

\* C5: a borrow answered 201 that is directly followed by the return of the
\* loan it created leaves the book's availableCopies at the value it had
\* before the borrow.
C5_BorrowReturnRoundTrip ==
    [][(/\ last.op = "borrow" /\ last.code = 201
        /\ last'.op = "return" /\ last'.code = 200
        /\ last'.loan = last.loan)
       => books'[last.book].availableCopies = last.avail]_vars

\* the single loan ever made has just been returned and its book is full again
C5_Witness ==
    /\ last.op = "return" /\ last.code = 200 /\ last.loan = 1
    /\ Len(loans) = 1 /\ loans[1].status = "returned"
    /\ loans[1].renewals = 0
    /\ books[last.book].totalBorrows = 1
    /\ books[last.book].availableCopies = books[last.book].totalCopies

\* C6: a return answered 200 on a loan of a book that has an active
\* reservation also fulfills the queue: the first active reservation becomes
\* fulfilled, a new loan exists for its user, availableCopies equals its
\* value before the return, and a notification for that user has been added.
C6_ReturnFulfillsQueue ==
    [][\A a \in Users, l \in 1..MaxLoans :
         (/\ l \in 1..Len(loans)
          /\ nextReservation(reservations, loans[l].book) # 0
          /\ ReturnBook(a, l)
          /\ last'.code = 200)
         => LET b == loans[l].book
                n == nextReservation(reservations, b)
                w == reservations[n].user
            IN /\ reservations'[n].status = "fulfilled"
               /\ \E k \in 1..Len(loans') :
                     /\ k > Len(loans)
                     /\ loans'[k].user = w /\ loans'[k].book = b
               /\ books'[b].availableCopies = books[b].availableCopies
               /\ \E m \in notifications' \ notifications : m.user = w]_vars

\* C7: a loan returned after its due date stores
\* fineAmount = min(ceil((returnDate - dueDate) / 1 day) * FINE_PER_DAY,
\* MAX_FINE_AMOUNT).
C7_FineOnLateReturn ==
    \A l \in 1..Len(loans) :
        (loans[l].status = "returned" /\ loans[l].returnDate > loans[l].dueDate)
        => loans[l].fineAmount =
              Min(CeilDays(loans[l].returnDate - loans[l].dueDate) * FINE_PER_DAY,
                  MAX_FINE_AMOUNT)

\* C8: reserving a book that is active and has availableCopies > 0 is
\* answered 400 'Book is available for immediate borrowing'; the
\* reservations (their number and their priorities) and the book's counters
\* stay as they were.
C8_ReserveAvailableRefused ==
    [][\A u \in Patrons, b \in Books :
         (/\ books[b].availableCopies > 0 /\ books[b].isActive
          /\ CreateReservation(u, b))
         => /\ last'.op = "reserve" /\ last'.code = 400
            /\ reservations' = reservations
            /\ books' = books]_vars

\* a reservation has just been refused with every book active and on the
\* shelf, after a loan had been taken and brought back
C8_Witness ==
    /\ last.op = "reserve" /\ last.code = 400
    /\ \A b \in Books : books[b].availableCopies > 0 /\ books[b].isActive
    /\ \E l \in 1..Len(loans) : loans[l].status = "returned"

\* C9: cancelling an active reservation of priority p (by its owner or by
\* staff) makes it cancelled and lowers by exactly 1 the priority of every
\* other active reservation of the same book with priority above p; every
\* other reservation is left as it was.
C9_CancelShiftsQueue ==
    [][\A a \in Users, r \in 1..MaxReservations :
         (/\ r \in 1..Len(reservations)
          /\ reservations[r].status = "active"
          /\ (isStaff(a) \/ reservations[r].user = a)
          /\ CancelReservation(a, r))
         => /\ last'.code = 200
            /\ Len(reservations') = Len(reservations)
            /\ reservations'[r].status = "cancelled"
            /\ \A i \in 1..Len(reservations) : i # r =>
                  reservations'[i] =
                     IF /\ reservations[i].book = reservations[r].book
                        /\ reservations[i].status = "active"
                        /\ reservations[i].priority > reservations[r].priority
                     THEN [reservations[i] EXCEPT !.priority = @ - 1]
                     ELSE reservations[i]]_vars

\* the head of a queue of two has just been cancelled and the other
\* reservation of that book now stands at priority 1
C9_Witness ==
    /\ last.op = "cancel" /\ last.code = 200
    /\ reservations[last.res].status = "cancelled"
    /\ reservations[last.res].priority = 1
    /\ \E i \in 1..Len(reservations) :
          /\ i # last.res
          /\ reservations[i].book = last.book
          /\ reservations[i].status = "active"
          /\ reservations[i].priority = 1

\* C10: a renew by the borrower or by staff is answered 200 exactly when the
\* loan is 'borrowed', has renewals < MAX_RENEWALS and now < dueDate; no
\* renew of a loan with renewals = MAX_RENEWALS or with a passed due date is
\* answered 200; a refused renew leaves the loan (dueDate, renewals,
\* renewalHistory, status) unchanged.
C10_RenewIffCanRenew ==
    [][\A a \in Users, l \in 1..MaxLoans :
         (l \in 1..Len(loans) /\ RenewBook(a, l))
         => LET d == loans[l]
                allowed == /\ d.status = "borrowed"
                           /\ d.renewals < MAX_RENEWALS
                           /\ now < d.dueDate
            IN /\ last'.code = 200 => allowed
               /\ (allowed /\ (isStaff(a) \/ d.user = a)) => last'.code = 200
               /\ last'.code = 200 =>
                     /\ loans'[l].renewals = d.renewals + 1
                     /\ loans'[l].dueDate =
                           d.dueDate + RENEWAL_DURATION_DAYS * DAY
               /\ last'.code # 200 => loans' = loans]_vars

\* a renew has just been refused on the only loan, which has used all its
\* renewals and is not yet due
C10_Witness ==
    /\ last.op = "renew" /\ last.code = 400
    /\ Len(loans) = 1
    /\ loans[1].status = "borrowed"
    /\ loans[1].renewals = MAX_RENEWALS
    /\ now < loans[1].dueDate

\* C11: once a loan is returned no step changes it any more; a return or a
\* renew aimed at it is never answered 200 (400 for the borrower and for
\* staff) and leaves every loan and every book counter as it was.
C11_ReturnedIsTerminal ==
    [][\A l \in 1..MaxLoans :
         (l \in 1..Len(loans) /\ loans[l].status = "returned")
         => /\ loans'[l] = loans[l]
            /\ \A a \in Users :
                  (ReturnBook(a, l) \/ RenewBook(a, l))
                  => /\ last'.code # 200
                     /\ (isStaff(a) \/ loans[l].user = a) => last'.code = 400
                     /\ loans' = loans
                     /\ books' = books]_vars

\* a second return of the only loan, already returned, has just been refused
C11_Witness ==
    /\ last.op = "return" /\ last.code = 400
    /\ Len(loans) = 1 /\ loans[1].status = "returned"
    /\ books[loans[1].book].availableCopies = books[loans[1].book].totalCopies

\* C12: no user holds more than BORROW_LIMIT unreturned (borrowed or
\* overdue) loans.
C12_AtMostLimitLoans ==
    \A u \in Users :
        Cardinality({l \in 1..Len(loans) :
            loans[l].user = u
            /\ loans[l].status \in {"borrowed", "overdue"}}) <= BORROW_LIMIT

ActiveFor(rs, u, b) ==
    {i \in 1..Len(rs) : rs[i].user = u /\ rs[i].book = b
                          /\ rs[i].status = "active"}

C14_StrangersForbidden ==
    [][\A a \in Users :
         LET staff == role[a] \in {"admin", "librarian"}
             frame == /\ loans' = loans /\ reservations' = reservations
                      /\ books' = books
         IN /\ \A l \in 1..MaxLoans :
                  (/\ l \in 1..Len(loans)
                   /\ (ReturnBook(a, l) \/ RenewBook(a, l)))
                  => /\ last'.code = 403 <=> ~(staff \/ loans[l].user = a)
                     /\ last'.code = 403 => frame
            /\ \A r \in 1..MaxReservations :
                  (r \in 1..Len(reservations) /\ CancelReservation(a, r))
                  => /\ last'.code = 403
                           <=> ~(staff \/ reservations[r].user = a)
                     /\ last'.code = 403 => frame]_vars

\* a cancel has just been refused with 403 while a loan is out and a
\* reservation is active
C14_Witness ==
    /\ last.op = "cancel" /\ last.code = 403
    /\ \E l \in 1..Len(loans) : loans[l].status = "borrowed"
    /\ \E r \in 1..Len(reservations) : reservations[r].status = "active"

\* C15: a borrow of a book that has availableCopies = 0 or is not active is
\* answered 400 'Book is not available for borrowing'; no loan is created
\* and the book's counters are unchanged.
C15_BorrowUnavailableRefused ==
    [][\A u \in Patrons, b \in Books :
         (/\ (books[b].availableCopies = 0 \/ ~books[b].isActive)
          /\ BorrowBook(u, b))
         => /\ last'.op = "borrow" /\ last'.code = 400
            /\ loans' = loans
            /\ books' = books]_vars

\* a borrow has just been refused when no book could be borrowed: one is
\* withdrawn with its copy on the shelf, the other has every copy out
C15_Witness ==
    /\ last.op = "borrow" /\ last.code = 400
    /\ \A b \in Books : books[b].availableCopies = 0 \/ ~books[b].isActive
    /\ \E b \in Books : ~books[b].isActive /\ books[b].availableCopies > 0
    /\ \E b \in Books : books[b].isActive /\ books[b].availableCopies = 0

\* C16: a borrow whose preconditions hold (book active with a copy on the
\* shelf, no 'borrowed' loan of that book by the user, fewer than
\* BORROW_LIMIT 'borrowed' loans of the user) is answered 201, appends one
\* loan for that user and book with status borrowed, returnDate null,
\* renewals 0 and dueDate = borrowDate + BORROW_DURATION_DAYS, and lowers
\* availableCopies by exactly 1.
C16_BorrowCreatesLoan ==
    [][\A u \in Patrons, b \in Books :
         (/\ books[b].availableCopies > 0 /\ books[b].isActive
          /\ \A l \in 1..Len(loans) :
                ~(/\ loans[l].user = u /\ loans[l].book = b
                  /\ loans[l].status = "borrowed")
          /\ Cardinality({l \in 1..Len(loans) :
                loans[l].user = u /\ loans[l].status = "borrowed"})
                < BORROW_LIMIT
          /\ BorrowBook(u, b))
         => /\ last'.code = 201
            /\ Len(loans') = Len(loans) + 1
            /\ LET d == loans'[Len(loans')]
               IN /\ d.user = u /\ d.book = b
                  /\ d.status = "borrowed" /\ d.returnDate = NULL
                  /\ d.renewals = 0
                  /\ d.borrowDate = now
                  /\ d.dueDate = d.borrowDate + BORROW_DURATION_DAYS * DAY
            /\ books'[b].availableCopies = books[b].availableCopies - 1]_vars

\* C17: whenever no request is in the middle of its steps, every book has
\* availableCopies = totalCopies - (number of its loans that are borrowed
\* or overdue): loans and counter change together or not at all.
C17_CounterMatchesLoans ==
    (\A i \in 1..Len(requests) : requests[i].pc = "done")
    => \A b \in Books :
          books[b].availableCopies =
             books[b].totalCopies
             - Cardinality({l \in 1..Len(loans) :
                  /\ loans[l].book = b
                  /\ loans[l].status \in {"borrowed", "overdue"}})

\* C18: a run of processReservationQueue that does not create a loan for the
\* user of the book's first active reservation leaves that reservation
\* active, with its priority unchanged.
C18_FailedFulfillmentKeepsReservation ==
    [][\A b \in Books :
         LET n == nextReservation(reservations, b)
         IN (/\ n # 0
             /\ ProcessReservationQueue(b)
             /\ ~\E k \in 1..Len(loans') :
                    /\ k > Len(loans)
                    /\ loans'[k].user = reservations[n].user
                    /\ loans'[k].book = b)
            => /\ reservations'[n].status = "active"
               /\ reservations'[n].priority = reservations[n].priority]_vars

C20_FulfillmentEffects ==
    [][\A b \in Books :
         (ProcessReservationQueue(b) /\ last'.code = 200)
         => LET n == nextReservation(reservations, b)
            IN /\ reservations'[n].status = "fulfilled"
               /\ reservations'[n].fulfilledAt # NULL
               /\ reservations'[n].fulfilledBy \notin {Undefined, NoUser}
               /\ Len(loans') = Len(loans) + 1
               /\ loans'[Len(loans')].user = reservations[n].user
               /\ loans'[Len(loans')].book = b
               /\ loans'[Len(loans')].status = "borrowed"
               /\ books'[b].availableCopies = books[b].availableCopies - 1
               /\ \A i \in ActiveOf(reservations, b) \ {n} :
                     reservations'[i] =
                        [reservations[i] EXCEPT !.priority = @ - 1]
               /\ \A i \in 1..Len(reservations') :
                     reservations'[i].status # "fulfilled"
                     => /\ reservations'[i].fulfilledAt = NULL
                        /\ reservations'[i].fulfilledBy
                              \in {Undefined, NoUser}]_vars

\* C21: a run of cleanupExpiredReservations expires every reservation that
\* was active with expiryDate < now and changes the status of no other;
\* afterwards the active reservations of every book that lost one keep
\* their relative order and have priorities exactly 1..N, and nothing is
\* left for a second run at the same instant.
C21_CleanupRenumbers ==
    [][CleanupExpiredReservations
       => LET gone == expiredIds(reservations, now)
          IN /\ Len(reservations') = Len(reservations)
             /\ \A i \in 1..Len(reservations) :
                   reservations'[i].status =
                      IF i \in gone THEN "expired"
                      ELSE reservations[i].status
             /\ expiredIds(reservations', now') = {}
             /\ \A b \in {reservations[i].book : i \in gone} :
                   LET act == ActiveOf(reservations', b)
                   IN /\ {reservations'[i].priority : i \in act}
                            = 1..Cardinality(act)
                      /\ \A i, j \in act :
                            reservations[i].priority < reservations[j].priority
                            => reservations'[i].priority
                                  < reservations'[j].priority]_vars

C23_OnlyLedgerMovesCopies ==
    [][\A b \in Books :
          books'[b].availableCopies # books[b].availableCopies =>
             /\ last'.code \in {200, 201}
             /\ last'.book = b
             /\ \/ /\ last'.op \in {"borrow", "process"}
                   /\ books'[b].availableCopies = books[b].availableCopies - 1
                \/ /\ last'.op = "return"
                   /\ books'[b].availableCopies = books[b].availableCopies + 1
      ]_vars

\* C24: two reserve calls by different users on the same book that both
\* answered 201 leave, while both reservations are active, two different
\* priorities.
C24_ConcurrentReservesDistinct ==
    \A i, j \in 1..Len(requests) :
        LET p == requests[i]
            q == requests[j]
        IN (/\ i # j
            /\ p.pc = "done" /\ q.pc = "done"
            /\ p.code = 201 /\ q.code = 201
            /\ p.user # q.user /\ p.book = q.book
            /\ reservations[p.res].status = "active"
            /\ reservations[q.res].status = "active")
           => reservations[p.res].priority # reservations[q.res].priority

\* C25: every loan has 0 <= renewals <= MAX_RENEWALS, as many renewalHistory
\* entries as renewals, and dueDate = borrowDate + BORROW_DURATION_DAYS +
\* renewals * RENEWAL_DURATION_DAYS.
C25_RenewalsMatchHistory ==
    \A l \in 1..Len(loans) :
        /\ loans[l].renewals >= 0 /\ loans[l].renewals <= MAX_RENEWALS
        /\ Len(loans[l].renewalHistory) = loans[l].renewals
        /\ loans[l].dueDate =
              loans[l].borrowDate
              + (BORROW_DURATION_DAYS
                 + loans[l].renewals * RENEWAL_DURATION_DAYS) * DAY

\* C26: once now > dueDate a loan that has not been returned is stored and
\* read with status overdue, and before that with status borrowed; the
\* overdue listing and the overdue-notice query each select exactly the
\* unreturned loans whose due date has passed.
C26_OverdueFromDueDate ==
    LET pastDue == {l \in 1..Len(loans) :
                       loans[l].returnDate = NULL /\ now > loans[l].dueDate}
    IN /\ \A l \in 1..Len(loans) :
             loans[l].returnDate = NULL =>
                loans[l].status = (IF l \in pastDue THEN "overdue"
                                   ELSE "borrowed")
       /\ findOverdueBorrows(loans, now) = pastDue
       /\ overdueBorrows(loans) = pastDue

\* C27: for an unreturned, unpaid loan the fine computed at time now is
\* min(max(0, ceil((now - dueDate) / day)) * FINE_PER_DAY, MAX_FINE_AMOUNT):
\* 0 up to the due date, never negative, never above the cap; calculateFine
\* returns it, a save past the due date stores it, and a second save at the
\* same time stores the same amount.
C27_FineFormula ==
    \A l \in 1..Len(loans) :
        LET d == loans[l]
            diff == now - d.dueDate
            days == -((-diff) \div DAY)
            expected == Min(Max(0, days) * FINE_PER_DAY, MAX_FINE_AMOUNT)
            once == borrowSave(d, FALSE, now, validateFirst).doc
            twice == borrowSave(once, FALSE, now, validateFirst).doc
        IN (d.returnDate = NULL /\ ~d.finePaid) =>
              /\ calculateFine(d, now) = expected
              /\ now <= d.dueDate => calculateFine(d, now) = 0
              /\ calculateFine(d, now) >= 0
              /\ calculateFine(d, now) <= MAX_FINE_AMOUNT
              /\ (last.op = "calculateFine" /\ last.loan = l) =>
                    last.fine = expected
              /\ d.status = "overdue" => d.fineAmount = expected
              /\ once.fineAmount = expected
              /\ twice = once
              /\ calculateFine(once, now) = calculateFine(d, now)

C27_Witness ==
    \E l \in 1..Len(loans) :
        /\ loans[l].returnDate = NULL /\ ~loans[l].finePaid
        /\ loans[l].status = "overdue"
        /\ loans[l].fineAmount = MAX_FINE_AMOUNT
        /\ CeilDays(now - loans[l].dueDate) * FINE_PER_DAY > MAX_FINE_AMOUNT
        /\ last.op = "calculateFine" /\ last.fine = MAX_FINE_AMOUNT

\* C28: the calculatedFine virtual and the calculateFine() method return the
\* same amount for every stored loan at every time.
C28_FineVirtualAgrees ==
    \A l \in 1..Len(loans) :
        calculatedFine(loans[l], now) = calculateFine(loans[l], now)

\* C29: a reservation that is active with expiryDate < now is never moved to
\* fulfilled, and no loan is created for it.
C29_LapsedNeverFulfilled ==
    [][\A n \in 1..Len(reservations) :
          (reservations[n].status = "active" /\ reservations[n].expiryDate < now)
          => /\ reservations'[n].status # "fulfilled"
             /\ ~(/\ last'.op = "process" /\ last'.code = 200
                  /\ last'.res = n /\ Len(loans') > Len(loans))]_vars

\* C30: when two return requests for the same loan have both answered, at
\* most one of them answered 200, and the book's availableCopies never
\* counts a copy that an unreturned loan still holds: availableCopies plus
\* the number of unreturned loans of the book stays within totalCopies.
C30_DoubleReturnCountsOnce ==
    /\ \A i, j \in 1..Len(requests) :
          (/\ i # j
           /\ requests[i].loan = requests[j].loan
           /\ requests[i].pc = "done" /\ requests[j].pc = "done")
          => ~(requests[i].code = 200 /\ requests[j].code = 200)
    /\ \A b \in Books :
          books[b].availableCopies
          + Cardinality({l \in 1..Len(loans) :
                            loans[l].book = b /\ loans[l].returnDate = NULL})
          <= books[b].totalCopies

====
